---- MODULE Spec2Model ----
(***************************************************************************)
(* Cutting-plan optimiser (PY_OTIM_PCP): the pattern generator             *)
(* (gerador_padroes.py), the optimiser built on it (otimizador_ortools.py),*)
(* the domain model (models.py) and the request handler (api.py).          *)
(*                                                                         *)
(* Two specifications share the definitions:                               *)
(*   SpecGen  GeradorPadroes.gerar_padroes_validos on its own, on lists of *)
(*            up to MaxItensGerador items;                                 *)
(*   Spec     one request through otimizar_plano_corte: validation,        *)
(*            OtimizadorORTools.otimizar (generation, the strategy loop,   *)
(*            ranking) and the response.                                   *)
(*                                                                         *)
(* Inputs follow the handler's input contract: the sheet width and the     *)
(* item lengths are positive integers, quantities are non-negative, item   *)
(* codes are unique. Floats are modelled as exact rationals [num, den].    *)
(* Wall-clock stamps (tempo_processamento_ms) and logging are left out.    *)
(* A solver that may answer FEASIBLE with a non-optimal assignment is      *)
(* explored for requests of one strategy (max_solucoes = 1); with more     *)
(* strategies the solver runs to a proven optimum, ties left open.         *)
(***************************************************************************)
EXTENDS Integers, Sequences, FiniteSets, TLC

VARIABLES
    pc,                 \* position of the request / of the call
    largura,            \* chapa.largura
    min_aproveitamento, \* threshold, in hundredths (95 is 0.95)
    items_pedido,       \* request.items_pedido as Item records
    items_estoque,      \* request.items_estoque as Item records
    max_solucoes,       \* request.max_solucoes
    solver_exato,       \* environment: the solver runs to a proven optimum
    todos_items,        \* otimizar: items_pedido + items_estoque
    num_skus,           \* gerar_padroes_validos: the outer loop variable
    padroes_validos,    \* gerar_padroes_validos: the list being built
    restricoes,         \* otimizar: codigo -> [min, max]
    k,                  \* otimizar: index of the next strategy to attempt
    solucoes,           \* otimizar: the Solutions collected so far
    usos,               \* _resolver_modelo: padroes_usados of its last call
    eventos,            \* history: generation / Clear / Solve events, in order
    estados,            \* history: solver status of each attempted strategy
    retorno,            \* what otimizar returned
    excecao,            \* the exception in flight inside the handler's try
    resposta            \* what the client receives

vars == <<pc, largura, min_aproveitamento, items_pedido, items_estoque,
          max_solucoes, solver_exato, todos_items, num_skus, padroes_validos,
          restricoes, k, solucoes, usos, eventos, estados, retorno, excecao,
          resposta>>

----------------------------------------------------------------------------
(* Bounds of the model *)

MaxLargura == 3
MaxQuantidade == 2
MaxItensGerador == 4

(* The item-list shapes <<#pedido, #estoque>> a request is drawn from. *)
Formatos == {<<0, 1>>, <<1, 0>>, <<1, 1>>, <<2, 0>>}

(* Thresholds, in hundredths: 40 is below the accepted range. *)
LimiaresValidos == {50, 75, 100}
LimiaresRequest == {40, 95}

----------------------------------------------------------------------------
(* Helpers on sequences and exact rationals *)

Min(a, b) == IF a < b THEN a ELSE b

RECURSIVE Flatten(_)
Flatten(ss) == IF ss = <<>> THEN <<>> ELSE Head(ss) \o Flatten(Tail(ss))

RECURSIVE SumSeq(_)
SumSeq(s) == IF s = <<>> THEN 0 ELSE Head(s) + SumSeq(Tail(s))

Range(s) == {s[i] : i \in DOMAIN s}

Rat(n, d) == [num |-> n, den |-> d]
RatAdd(a, b) == Rat(a.num * b.den + b.num * a.den, a.den * b.den)
RatLess(a, b) == a.num * b.den < b.num * a.den
RatEq(a, b) == a.num * b.den = b.num * a.den

----------------------------------------------------------------------------
(* models.py *)

Item(codigo, comprimento, quantidade, tipo) ==
    [codigo |-> codigo, comprimento |-> comprimento,
     quantidade |-> quantidade, tipo |-> tipo]

(* Padrao(items=..., quantidades=...): chapa keeps its default None, the   *)
(* empty set here; a set sheet would be {[largura |-> w]}.                 *)
Padrao(items, quantidades) ==
    [items |-> items, quantidades |-> quantidades, chapa |-> {}]

soma_largura(p) ==
    SumSeq([i \in 1..Min(Len(p.items), Len(p.quantidades)) |->
               p.items[i].comprimento * p.quantidades[i]])

num_skus_de(p) == Cardinality({p.items[i].codigo : i \in DOMAIN p.items})

(* Padrao.aproveitamento: soma_largura / chapa.largura if self.chapa else 0.0 *)
aproveitamento(p) ==
    IF p.chapa = {} THEN Rat(0, 1)
    ELSE Rat(soma_largura(p), (CHOOSE c \in p.chapa : TRUE).largura)

----------------------------------------------------------------------------
(* gerador_padroes.py *)

(* itertools.combinations(items, n) from position inicio on, in its        *)
(* lexicographic order of positions.                                       *)
RECURSIVE combinations(_, _, _)
combinations(items, n, inicio) ==
    IF n = 0 THEN << <<>> >>
    ELSE IF inicio > Len(items) THEN <<>>
    ELSE LET com == combinations(items, n - 1, inicio + 1)
             sem == combinations(items, n, inicio + 1)
         IN  [i \in 1..Len(com) |-> <<items[inicio]>> \o com[i]] \o sem

(* backtrack: the test that accepts a full assignment *)
AceitaSomaMenorIgual(soma_atual, largura_alvo) == soma_atual <= largura_alvo
AceitaSoma(soma_atual, largura_alvo) == soma_atual = largura_alvo

(* backtrack: the largest count tried for the current item *)
max_quantidade_curta(espaco_restante, comprimento) ==
    (espaco_restante \div comprimento) - 1
max_quantidade(espaco_restante, comprimento) ==
    espaco_restante \div comprimento

RECURSIVE backtrack(_, _, _, _, _)
RECURSIVE TentarQuantidades(_, _, _, _, _, _, _)

backtrack(items, largura_alvo, idx, quantidades_atuais, soma_atual) ==
    IF idx = Len(items)
    THEN IF AceitaSoma(soma_atual, largura_alvo)
         THEN << Padrao(items, quantidades_atuais) >>
         ELSE <<>>
    ELSE IF soma_atual > largura_alvo THEN <<>>
    ELSE LET item_atual == items[idx + 1]
             espaco_restante == largura_alvo - soma_atual
         IN  TentarQuantidades(items, largura_alvo, idx, quantidades_atuais,
                 soma_atual, 0,
                 max_quantidade(espaco_restante, item_atual.comprimento))

(* for qtd in range(max_quantidade + 1), from qtd on *)
TentarQuantidades(items, alvo, idx, qtds, soma, qtd, max_qtd) ==
    IF qtd > max_qtd THEN <<>>
    ELSE backtrack(items, alvo, idx + 1, Append(qtds, qtd),
                   soma + qtd * items[idx + 1].comprimento)
         \o TentarQuantidades(items, alvo, idx, qtds, soma, qtd + 1, max_qtd)

encontrar_distribuicoes(items, chapa_largura) ==
    backtrack(items, chapa_largura, 0, <<>>, 0)

(* _validar_padrao; min_aprov in hundredths, the float comparison          *)
(* soma/largura < min done on exact rationals.                             *)
validar_padrao_estrito(p, chapa_largura, min_aprov) ==
    /\ soma_largura(p) <= chapa_largura
    /\ num_skus_de(p) <= 3
    /\ RatLess(Rat(min_aprov, 100), Rat(soma_largura(p), chapa_largura))
    /\ \A i \in DOMAIN p.quantidades : p.quantidades[i] >= 0

validar_padrao(p, chapa_largura, min_aprov) ==
    IF soma_largura(p) > chapa_largura THEN FALSE
    ELSE IF num_skus_de(p) > 3 THEN FALSE
    ELSE IF RatLess(Rat(soma_largura(p), chapa_largura), Rat(min_aprov, 100))
         THEN FALSE
    ELSE IF \E i \in DOMAIN p.quantidades : p.quantidades[i] < 0 THEN FALSE
    ELSE TRUE

(* One pass of the outer loop of gerar_padroes_validos: every combination  *)
(* of n items, its distributions, filtered by _validar_padrao.             *)
PadroesDeTamanho(items, n, chapa_largura, min_aprov) ==
    LET combos == combinations(items, n, 1)
    IN  Flatten([c \in 1..Len(combos) |->
            SelectSeq(encontrar_distribuicoes(combos[c], chapa_largura),
                      LAMBDA p : validar_padrao(p, chapa_largura, min_aprov))])

(* range(1, 4): the last number of SKUs combined *)
UltimoNumSkus == 3

gerar_padroes_validos(items, chapa_largura, min_aprov) ==
    Flatten([n \in 1..UltimoNumSkus |->
                PadroesDeTamanho(items, n, chapa_largura, min_aprov)])

----------------------------------------------------------------------------
(* models.py: SolucaoOtimizacao *)

RECURSIVE GCD(_, _)
GCD(a, b) == IF b = 0 THEN a ELSE GCD(b, a % b)

(* One value per number: a non-negative rational in lowest terms. *)
Normal(r) == LET g == GCD(r.num, r.den) IN Rat(r.num \div g, r.den \div g)

SolucaoOtimizacao(padroes, aprov_total, chapas, cobertos) ==
    [padroes |-> padroes, aproveitamento_total |-> aprov_total,
     chapas_necessarias |-> chapas, items_cobertos |-> cobertos,
     ranking |-> 0]

(* f"{x:.2%}": x as hundredths of a percent, rounded to nearest, ties to even *)
Percentual(r) ==
    LET n == r.num * 10000
        q == n \div r.den
        resto == n % r.den
    IN  IF 2 * resto > r.den THEN q + 1
        ELSE IF 2 * resto = r.den THEN q + (q % 2)
        ELSE q

(* SolucaoOtimizacao.resumo *)
resumo(sol) ==
    [ranking |-> sol.ranking,
     aproveitamento |-> Percentual(sol.aproveitamento_total),
     chapas_necessarias |-> sol.chapas_necessarias,
     padroes |-> [i \in DOMAIN sol.padroes |->
         [num_padrao |-> i,
          items |-> [j \in DOMAIN sol.padroes[i].items |->
                        sol.padroes[i].items[j].codigo],
          quantidades |-> sol.padroes[i].quantidades,
          aproveitamento |-> Percentual(aproveitamento(sol.padroes[i])),
          soma_largura |-> soma_largura(sol.padroes[i])]]]

----------------------------------------------------------------------------
(* otimizador_ortools.py *)

(* self.solver.IntVar(0, 1000, ...) *)
IntVarMax == 1000

Estrategias ==
    << [nome |-> "maximizar_aproveitamento", peso |-> 100],
       [nome |-> "minimizar_chapas", peso |-> 50],
       [nome |-> "balanceado", peso |-> 70] >>

(* estrategias[:max_solucoes], max_solucoes >= 0 *)
EstrategiasSemCorte(max) == Estrategias
EstrategiasTentadas(max) ==
    SubSeq(Estrategias, 1, Min(max, Len(Estrategias)))

(* The bounds of one code's constraint *)
limites_pedido(item) == [min |-> item.quantidade, max |-> item.quantidade]
limites_estoque_folgado(item) == [min |-> 0, max |-> item.quantidade + 1]
limites_estoque(item) == [min |-> 0, max |-> item.quantidade]

(* The last item of a list with a code: a later assignment to              *)
(* restricoes[codigo] overwrites an earlier one.                           *)
UltimoCom(itens, codigo) ==
    itens[CHOOSE i \in DOMAIN itens :
            /\ itens[i].codigo = codigo
            /\ \A j \in DOMAIN itens : j > i => itens[j].codigo # codigo]

(* restricoes after the two loops: pedido first, estoque second *)
definir_restricoes(pedido, estoque) ==
    LET cod_p == {pedido[i].codigo : i \in DOMAIN pedido}
        cod_e == {estoque[i].codigo : i \in DOMAIN estoque}
    IN  [c \in cod_p \cup cod_e |->
            IF c \in cod_e THEN limites_estoque(UltimoCom(estoque, c))
            ELSE limites_pedido(UltimoCom(pedido, c))]

(* The coefficient of a pattern's variable in a code's constraint *)
qtd_no_padrao(p, codigo) ==
    SumSeq([i \in 1..Min(Len(p.items), Len(p.quantidades)) |->
               IF p.items[i].codigo = codigo THEN p.quantidades[i] ELSE 0])

(* The left-hand side of a code's constraint over the first Len(x) variables *)
Producao(padroes, x, codigo) ==
    SumSeq([i \in DOMAIN x |-> qtd_no_padrao(padroes[i], codigo) * x[i]])

(* The largest value of a pattern's variable the upper bounds leave room   *)
(* for; IntVarMax when no constraint has it.                               *)
TetoDaVariavel(p, restr) ==
    LET tetos == {restr[c].max \div qtd_no_padrao(p, c) :
                     c \in {d \in DOMAIN restr : qtd_no_padrao(p, d) > 0}}
    IN  IF tetos = {} THEN IntVarMax
        ELSE Min(IntVarMax, CHOOSE t \in tetos : \A u \in tetos : t <= u)

(* The assignments to the first n variables that keep every constraint     *)
(* within its upper bound (coefficients and variables are non-negative,    *)
(* so an assignment over an upper bound has no feasible extension).        *)
RECURSIVE Parciais(_, _, _)
Parciais(padroes, restr, n) ==
    IF n = 0 THEN { <<>> }
    ELSE {Append(xv[1], xv[2]) :
            xv \in {yw \in Parciais(padroes, restr, n - 1)
                              \X (0..TetoDaVariavel(padroes[n], restr)) :
                       \A c \in DOMAIN restr :
                           Producao(padroes, Append(yw[1], yw[2]), c)
                               <= restr[c].max}}

(* The feasible region of the model _resolver_modelo builds: integer       *)
(* x[i] in 0..IntVarMax, min <= sum of coefficient * x[i] <= max per code. *)
Viaveis(padroes, restr) ==
    {x \in Parciais(padroes, restr, Len(padroes)) :
        \A c \in DOMAIN restr : Producao(padroes, x, c) >= restr[c].min}

(* The objective, minimised: the number of sheets, or minus the summed     *)
(* soma_largura / chapa.largura (peso_aproveitamento is not read).         *)
Objetivo(estrategia, padroes, x, chapa_largura) ==
    IF estrategia = "minimizar_chapas"
    THEN Rat(SumSeq(x), 1)
    ELSE Rat(0 - SumSeq([i \in DOMAIN x |-> soma_largura(padroes[i]) * x[i]]),
             chapa_largura)

(* self.solver.Solve(): the external solver, by its contract. An           *)
(* infeasible model is reported INFEASIBLE. Any other is answered OPTIMAL  *)
(* with one of the assignments of least objective (which one is the        *)
(* solver's choice) or, by a solver that may stop at an incumbent,         *)
(* FEASIBLE with any feasible assignment. The variables' bounds keep every *)
(* model bounded.                                                          *)
Solve(estrategia, padroes, restr, chapa_largura, exato) ==
    LET v == Viaveis(padroes, restr)
        otimos == {x \in v : \A y \in v :
                      ~RatLess(Objetivo(estrategia, padroes, y, chapa_largura),
                               Objetivo(estrategia, padroes, x, chapa_largura))}
    IN  IF v = {} THEN {[status |-> "INFEASIBLE", x |-> <<>>]}
        ELSE {[status |-> "OPTIMAL", x |-> x] : x \in otimos}
             \cup (IF exato THEN {}
                   ELSE {[status |-> "FEASIBLE", x |-> x] : x \in v})

(* The (pattern, usage count) pairs read off the solver's values:          *)
(* solution_value() > 0.5, int(round(...)), on integer values.             *)
padroes_usados(padroes, x) ==
    LET usados == SelectSeq([i \in DOMAIN x |-> i], LAMBDA i : x[i] >= 1)
    IN  [j \in DOMAIN usados |->
            [padrao |-> padroes[usados[j]], qtd_uso |-> x[usados[j]]]]

(* items_cobertos after the loop of _montar_solucao: each used pattern     *)
(* adds its own quantities once.                                           *)
items_cobertos(usados) ==
    LET codigos == UNION {{usados[j].padrao.items[i].codigo :
                              i \in 1..Min(Len(usados[j].padrao.items),
                                           Len(usados[j].padrao.quantidades))} :
                          j \in DOMAIN usados}
    IN  [c \in codigos |->
            SumSeq([j \in DOMAIN usados |-> qtd_no_padrao(usados[j].padrao, c)])]

RECURSIVE SomaAproveitamento(_)
SomaAproveitamento(usados) ==
    IF usados = <<>> THEN Rat(0, 1)
    ELSE LET a == aproveitamento(Head(usados).padrao)
         IN  RatAdd(Rat(a.num * Head(usados).qtd_uso, a.den),
                    SomaAproveitamento(Tail(usados)))

montar_solucao(usados, pedido) ==
    LET padroes_finais == [j \in DOMAIN usados |-> usados[j].padrao]
        num_chapas == Len(padroes_finais)
        soma == SomaAproveitamento(usados)
        total == IF num_chapas > 0 THEN Rat(soma.num, soma.den * num_chapas)
                 ELSE soma
    IN  SolucaoOtimizacao(padroes_finais, Normal(total), num_chapas,
                          items_cobertos(usados))

(* _resolver_modelo given the solver's answer r: None (the empty set) or   *)
(* the assembled Solution.                                                 *)
resolver_modelo(padroes, r, pedido) ==
    IF r.status \notin {"OPTIMAL", "FEASIBLE"} THEN {}
    ELSE {montar_solucao(padroes_usados(padroes, r.x), pedido)}

(* `if solucao:` - None is falsy, a SolucaoOtimizacao object is truthy     *)
(* (the dataclass defines neither __bool__ nor __len__).                   *)
Verdadeiro(opcional) == opcional # {}

(* solucoes.sort(key=aproveitamento_total, reverse=True): stable *)
RECURSIVE Inserir(_, _)
Inserir(ordenadas, sol) ==
    IF ordenadas = <<>> THEN <<sol>>
    ELSE IF RatLess(Head(ordenadas).aproveitamento_total,
                    sol.aproveitamento_total)
         THEN <<sol>> \o ordenadas
         ELSE <<Head(ordenadas)>> \o Inserir(Tail(ordenadas), sol)

RECURSIVE Ordenar(_)
Ordenar(sols) ==
    IF sols = <<>> THEN <<>>
    ELSE Inserir(Ordenar(SubSeq(sols, 1, Len(sols) - 1)), sols[Len(sols)])

(* for i, sol in enumerate(solucoes, 1): sol.ranking = i *)
Ranquear(sols) == [i \in DOMAIN sols |-> [sols[i] EXCEPT !.ranking = i]]

----------------------------------------------------------------------------
(* Inputs *)

Codigo(prefixo, i) == <<prefixo, i>>

(* The lists of n items of one kind: codes by position, every length in    *)
(* 1..MaxLargura, every quantity in quantidades.                           *)
ListasDeItens(prefixo, n, tipo, quantidades) ==
    {[i \in 1..n |-> Item(Codigo(prefixo, i), s[i][1], s[i][2], tipo)] :
        s \in [1..n -> (1..MaxLargura) \X quantidades]}

----------------------------------------------------------------------------
(* GeradorPadroes.gerar_padroes_validos, one pass of the outer loop a step *)

GerarCombinacoes ==
    /\ pc = "gerar"
    /\ num_skus <= UltimoNumSkus
    /\ padroes_validos' = padroes_validos \o
           PadroesDeTamanho(todos_items, num_skus, largura, min_aproveitamento)
    /\ num_skus' = num_skus + 1
    /\ UNCHANGED <<pc, largura, min_aproveitamento, items_pedido,
                   items_estoque, max_solucoes, solver_exato, todos_items,
                   restricoes, k, solucoes, usos, eventos, estados, retorno,
                   excecao, resposta>>

GerarRetorna ==
    /\ pc = "gerar"
    /\ num_skus > UltimoNumSkus
    /\ pc' = "gerado"
    /\ eventos' = Append(eventos, "gerar")
    /\ UNCHANGED <<largura, min_aproveitamento, items_pedido, items_estoque,
                   max_solucoes, solver_exato, todos_items, num_skus,
                   padroes_validos, restricoes, k, solucoes, usos, estados,
                   retorno, excecao, resposta>>

InitGen ==
    /\ pc = "gerar"
    /\ largura \in 1..MaxLargura
    /\ min_aproveitamento \in LimiaresValidos
    /\ \E n \in 1..MaxItensGerador :
          items_pedido \in ListasDeItens("I", n, "pedido", {1})
    /\ items_estoque = <<>>
    /\ max_solucoes = 1
    /\ solver_exato = TRUE
    /\ todos_items = items_pedido
    /\ num_skus = 1
    /\ padroes_validos = <<>>
    /\ restricoes = <<>>
    /\ k = 1
    /\ solucoes = <<>>
    /\ usos = <<>>
    /\ eventos = <<>>
    /\ estados = <<>>
    /\ retorno = <<>>
    /\ excecao = <<>>
    /\ resposta = <<>>

----------------------------------------------------------------------------
(* api.py: otimizar_plano_corte, and OtimizadorORTools.otimizar inside it  *)

(* detail is kept as a sequence of text pieces *)
HTTPException(status_code, detail) ==
    [classe |-> "HTTPException", status_code |-> status_code,
     detail |-> <<detail>>]

(* The classes `except Exception` catches: HTTPException derives from      *)
(* Exception.                                                              *)
SubclassesDeException == {"HTTPException"}

(* The two validations at the top of the try block, in order *)
FalhaDeValidacao ==
    IF items_pedido = <<>>
    THEN {HTTPException(400, "Lista de itens pedido vazia")}
    ELSE IF min_aproveitamento < 50 \/ min_aproveitamento > 100
    THEN {HTTPException(400, "Aproveitamento minimo deve estar entre 0.5 e 1.0")}
    ELSE {}

RejeitarRequest ==
    /\ pc = "request"
    /\ FalhaDeValidacao # {}
    /\ excecao' = FalhaDeValidacao
    /\ pc' = "except"
    /\ UNCHANGED <<largura, min_aproveitamento, items_pedido, items_estoque,
                   max_solucoes, solver_exato, todos_items, num_skus,
                   padroes_validos, restricoes, k, solucoes, usos, eventos,
                   estados, retorno, resposta>>

(* Validation passed: the Items are built and otimizar is entered;         *)
(* todos_items = items_pedido + items_estoque, the generator starts.       *)
IniciarOtimizar ==
    /\ pc = "request"
    /\ FalhaDeValidacao = {}
    /\ todos_items' = items_pedido \o items_estoque
    /\ num_skus' = 1
    /\ padroes_validos' = <<>>
    /\ pc' = "gerar"
    /\ UNCHANGED <<largura, min_aproveitamento, items_pedido, items_estoque,
                   max_solucoes, solver_exato, restricoes, k, solucoes, usos,
                   eventos, estados, retorno, excecao, resposta>>

(* if not padroes_validos: return [SolucaoOtimizacao(padroes=[], ...)] *)
RetornarSemPadroes ==
    /\ pc = "gerado"
    /\ padroes_validos = <<>>
    /\ retorno' = << SolucaoOtimizacao(<<>>, Rat(0, 1), 0, <<>>) >>
    /\ pc' = "retornou"
    /\ UNCHANGED <<largura, min_aproveitamento, items_pedido, items_estoque,
                   max_solucoes, solver_exato, todos_items, num_skus,
                   padroes_validos, restricoes, k, solucoes, usos, eventos,
                   estados, excecao, resposta>>

DefinirRestricoes ==
    /\ pc = "gerado"
    /\ padroes_validos # <<>>
    /\ restricoes' = definir_restricoes(items_pedido, items_estoque)
    /\ solucoes' = <<>>
    /\ k' = 1
    /\ pc' = "estrategias"
    /\ UNCHANGED <<largura, min_aproveitamento, items_pedido, items_estoque,
                   max_solucoes, solver_exato, todos_items, num_skus,
                   padroes_validos, usos, eventos, estados, retorno, excecao,
                   resposta>>

(* One pass of the strategy loop: Clear, _resolver_modelo, the append *)
ResolverEstrategia ==
    /\ pc = "estrategias"
    /\ k <= Len(EstrategiasTentadas(max_solucoes))
    /\ LET estrategia == EstrategiasTentadas(max_solucoes)[k].nome
       IN  \E r \in Solve(estrategia, padroes_validos, restricoes, largura,
                         solver_exato) :
              LET solucao == resolver_modelo(padroes_validos, r, items_pedido)
              IN  /\ eventos' = eventos \o <<"Clear", estrategia>>
                  /\ estados' = Append(estados, r.status)
                  /\ IF Verdadeiro(solucao)
                     THEN /\ solucoes' = solucoes \o
                                 [i \in 1..1 |-> CHOOSE sol \in solucao : TRUE]
                          /\ usos' = padroes_usados(padroes_validos, r.x)
                     ELSE UNCHANGED <<solucoes, usos>>
    /\ k' = k + 1
    /\ UNCHANGED <<pc, largura, min_aproveitamento, items_pedido,
                   items_estoque, max_solucoes, solver_exato, todos_items,
                   num_skus, padroes_validos, restricoes, retorno, excecao,
                   resposta>>

(* After the loop: sort, rank, return solucoes[:max_solucoes] *)
OrdenarERetornar ==
    /\ pc = "estrategias"
    /\ k > Len(EstrategiasTentadas(max_solucoes))
    /\ solucoes' = Ranquear(Ordenar(solucoes))
    /\ retorno' = SubSeq(solucoes', 1, Min(max_solucoes, Len(solucoes')))
    /\ pc' = "retornou"
    /\ UNCHANGED <<largura, min_aproveitamento, items_pedido, items_estoque,
                   max_solucoes, solver_exato, todos_items, num_skus,
                   padroes_validos, restricoes, k, usos, eventos, estados,
                   excecao, resposta>>

(* if not solucoes or not solucoes[0].padroes: raise HTTPException(400) *)
SemSolucaoViavel ==
    IF Len(retorno) = 0 THEN TRUE ELSE Len(retorno[1].padroes) = 0

RejeitarSemSolucao ==
    /\ pc = "retornou"
    /\ SemSolucaoViavel
    /\ excecao' =
           {HTTPException(400, "Nenhuma solucao viavel encontrada com as restricoes")}
    /\ pc' = "except"
    /\ UNCHANGED <<largura, min_aproveitamento, items_pedido, items_estoque,
                   max_solucoes, solver_exato, todos_items, num_skus,
                   padroes_validos, restricoes, k, solucoes, usos, eventos,
                   estados, retorno, resposta>>

Responder ==
    /\ pc = "retornou"
    /\ ~SemSolucaoViavel
    /\ resposta' = {[status_code |-> 200, detail |-> <<>>,
                     corpo |-> [i \in DOMAIN retorno |-> resumo(retorno[i])]]}
    /\ pc' = "fim"
    /\ UNCHANGED <<largura, min_aproveitamento, items_pedido, items_estoque,
                   max_solucoes, solver_exato, todos_items, num_skus,
                   padroes_validos, restricoes, k, solucoes, usos, eventos,
                   estados, retorno, excecao>>

(* except Exception as e: raise HTTPException(500, f"Erro ao processar: {e}") *)
TratarExcecao ==
    /\ pc = "except"
    /\ \E e \in excecao :
          /\ e.classe \in SubclassesDeException
          /\ resposta' = {[status_code |-> 500,
                           detail |-> <<"Erro ao processar">> \o e.detail,
                           corpo |-> <<>>]}
    /\ pc' = "fim"
    /\ UNCHANGED <<largura, min_aproveitamento, items_pedido, items_estoque,
                   max_solucoes, solver_exato, todos_items, num_skus,
                   padroes_validos, restricoes, k, solucoes, usos, eventos,
                   estados, retorno, excecao>>

Init ==
    /\ pc = "request"
    /\ largura \in 1..MaxLargura
    /\ min_aproveitamento \in LimiaresRequest
    /\ \E f \in Formatos :
          /\ items_pedido \in ListasDeItens("P", f[1], "pedido",
                                            0..MaxQuantidade)
          /\ items_estoque \in ListasDeItens("E", f[2], "estoque",
                                             0..MaxQuantidade)
    /\ max_solucoes \in 1..(Len(Estrategias) + 1)
    /\ solver_exato \in (IF max_solucoes = 1 THEN BOOLEAN ELSE {TRUE})
    /\ todos_items = <<>>
    /\ num_skus = 1
    /\ padroes_validos = <<>>
    /\ restricoes = <<>>
    /\ k = 1
    /\ solucoes = <<>>
    /\ usos = <<>>
    /\ eventos = <<>>
    /\ estados = <<>>
    /\ retorno = <<>>
    /\ excecao = {}
    /\ resposta = {}

Next ==
    \/ RejeitarRequest
    \/ IniciarOtimizar
    \/ GerarCombinacoes
    \/ GerarRetorna
    \/ RetornarSemPadroes
    \/ DefinirRestricoes
    \/ ResolverEstrategia
    \/ OrdenarERetornar
    \/ RejeitarSemSolucao
    \/ Responder
    \/ TratarExcecao

Spec == Init /\ [][Next]_vars

NextGen == GerarCombinacoes \/ GerarRetorna

SpecGen == InitGen /\ [][NextGen]_vars

----------------------------------------------------------------------------
(* Claims about the pattern generator (SpecGen) *)

(* The positions of every combination of n items of a list of length len. *)
PosicoesCrescentes(n, len) ==
    {pos \in [1..n -> 1..len] : \A i \in 1..(n - 1) : pos[i] < pos[i + 1]}

(* C1: every pattern the generator has accepted sums to the sheet width    *)
(* exactly, lists at most 3 distinct item codes, has utilisation           *)
(* sum_width / width of at least the threshold, and no negative count.     *)
C1_PadroesGerados ==
    \A j \in DOMAIN padroes_validos :
        LET p == padroes_validos[j]
            soma == SumSeq([i \in DOMAIN p.items |->
                               p.items[i].comprimento * p.quantidades[i]])
        IN  /\ soma = largura
            /\ Cardinality({p.items[i].codigo : i \in DOMAIN p.items}) <= 3
            /\ soma * 100 >= min_aproveitamento * largura
            /\ \A i \in DOMAIN p.quantidades : p.quantidades[i] >= 0

C1_Witness ==
    /\ pc = "gerado"
    /\ min_aproveitamento = 100
    /\ \E j \in DOMAIN padroes_validos :
          /\ Len(padroes_validos[j].items) = 3
          /\ \A i \in 1..3 : padroes_validos[j].quantidades[i] > 0
    /\ \E j \in DOMAIN padroes_validos : Len(padroes_validos[j].items) = 1

(* C2: once generation has returned, every combination of 1, 2 or 3 items  *)
(* of the list with every vector of non-negative counts whose              *)
(* length x count sum is the sheet width is one of the returned patterns.  *)
C2_GeradorCompleto ==
    pc = "gerado" =>
        \A n \in 1..3 :
            \A pos \in PosicoesCrescentes(n, Len(todos_items)) :
                \A qs \in [1..n -> 0..largura] :
                    SumSeq([i \in 1..n |->
                        todos_items[pos[i]].comprimento * qs[i]]) = largura
                    => \E j \in DOMAIN padroes_validos :
                          /\ padroes_validos[j].items =
                                 [i \in 1..n |-> todos_items[pos[i]]]
                          /\ padroes_validos[j].quantidades = qs

C2_Witness ==
    /\ pc = "gerado"
    /\ Len(todos_items) = MaxItensGerador
    /\ \E j \in DOMAIN padroes_validos :
          LET p == padroes_validos[j]
          IN  /\ Len(p.items) = 3
              /\ \E i \in 1..3 : p.quantidades[i] = 0
              /\ \E i \in 1..3 :
                    /\ p.quantidades[i] >= 2
                    /\ p.quantidades[i] * p.items[i].comprimento = largura - 1

----------------------------------------------------------------------------
(* Claims about otimizar and the request handler (Spec) *)

(* items_cobertos.get(codigo, 0) *)
Coberto(sol, codigo) ==
    IF codigo \in DOMAIN sol.items_cobertos THEN sol.items_cobertos[codigo]
    ELSE 0

(* C3: in every returned Solution with at least one pattern, the quantity  *)
(* recorded for each order item code is the requested quantity.            *)
C3_PedidoExato ==
    pc = "retornou" =>
        \A i \in DOMAIN retorno :
            Len(retorno[i].padroes) > 0 =>
                \A j \in DOMAIN items_pedido :
                    Coberto(retorno[i], items_pedido[j].codigo)
                        = items_pedido[j].quantidade

(* C4: in every collected or returned Solution, the quantity recorded for  *)
(* each stock item code is between 0 and the available quantity.           *)
C4_EstoqueLimitado ==
    \A sol \in Range(solucoes) \cup Range(retorno) :
        \A j \in DOMAIN items_estoque :
            /\ Coberto(sol, items_estoque[j].codigo) >= 0
            /\ Coberto(sol, items_estoque[j].codigo)
                   <= items_estoque[j].quantidade

C4_Witness ==
    /\ pc = "retornou"
    /\ Len(retorno) >= 2
    /\ \E j \in DOMAIN items_estoque :
          /\ Coberto(retorno[1], items_estoque[j].codigo) >= 1
          /\ \E u \in Range(usos) :
                /\ u.qtd_uso >= 2
                /\ qtd_no_padrao(u.padrao, items_estoque[j].codigo) >= 1

(* C5: the ranks of the returned list are 1..N in list order, N is at most *)
(* max_solucoes, and the list is sorted by non-increasing aggregated       *)
(* utilisation, also when no candidate pattern exists.                     *)
C5_Ranking ==
    pc = "retornou" =>
        /\ \A i \in DOMAIN retorno : retorno[i].ranking = i
        /\ Len(retorno) <= max_solucoes
        /\ \A i \in 1..(Len(retorno) - 1) :
              ~RatLess(retorno[i].aproveitamento_total,
                       retorno[i + 1].aproveitamento_total)

(* C6: the aggregated utilisation of the Solution a strategy has just      *)
(* contributed is the sum of (soma_largura / largura) x usage count over   *)
(* its chosen patterns, divided by the number of distinct chosen patterns; *)
(* and each pattern of a response reports soma_largura / largura.          *)
C6_AproveitamentoAgregado ==
    /\ (pc = "estrategias" /\ Len(estados) > 0
            /\ estados[Len(estados)] \in {"OPTIMAL", "FEASIBLE"}
            /\ Len(usos) > 0) =>
          RatEq(solucoes[Len(solucoes)].aproveitamento_total,
                Rat(SumSeq([j \in DOMAIN usos |->
                        soma_largura(usos[j].padrao) * usos[j].qtd_uso]),
                    largura * Len(usos)))
    /\ \A r \in resposta : \A i \in DOMAIN r.corpo :
          \A j \in DOMAIN r.corpo[i].padroes :
              r.corpo[i].padroes[j].aproveitamento
                  = Percentual(Rat(r.corpo[i].padroes[j].soma_largura, largura))

(* C7: a validation failure or a total infeasibility reaches the client as *)
(* its own failure, status 400 with its own detail, never as the internal  *)
(* error.                                                                  *)
C7_FalhasDistintas ==
    pc = "fim" =>
        \A e \in excecao :
            e.status_code = 400 =>
                \A r \in resposta :
                    /\ r.status_code = 400
                    /\ r.detail = e.detail

(* C8: with candidate patterns, generation ends before the first solve and *)
(* the solver events are Clear, Solve of strategy j for j = 1..min(max, 3) *)
(* in the fixed order, each once; a strategy that fails adds no Solution   *)
(* and the later ones are still attempted. A Solve event is logged under   *)
(* its strategy's name.                                                    *)
C8_Esperado(m) ==
    <<"gerar">> \o
    Flatten([j \in 1..m |->
        <<"Clear", <<"maximizar_aproveitamento", "minimizar_chapas",
                     "balanceado">>[j]>>])

C8_Sucessos ==
    Cardinality({j \in DOMAIN estados : estados[j] \in {"OPTIMAL", "FEASIBLE"}})

C8_OrdemDasEstrategias ==
    LET n == IF max_solucoes < 3 THEN max_solucoes ELSE 3
    IN  /\ pc \in {"request", "gerar"} => eventos = <<>>
        /\ pc = "gerado" => eventos = <<"gerar">>
        /\ pc = "estrategias" =>
              /\ k <= n + 1
              /\ eventos = C8_Esperado(k - 1)
              /\ Len(estados) = k - 1
              /\ Len(solucoes) = C8_Sucessos
        /\ (pc = "retornou" /\ Len(padroes_validos) > 0) =>
              /\ eventos = C8_Esperado(n)
              /\ Len(estados) = n
              /\ Len(solucoes) = C8_Sucessos

C8_Witness ==
    /\ pc = "retornou"
    /\ max_solucoes > 3
    /\ Len(padroes_validos) > 0
    /\ Len(estados) = 3
    /\ estados[1] = "INFEASIBLE"
    /\ Len(eventos) = 7

(* C9: with candidate patterns, every Solution of the returned list has at *)
(* least one pattern.                                                      *)
C9_SemSolucaoVazia ==
    (pc = "retornou" /\ Len(padroes_validos) > 0) =>
        \A i \in DOMAIN retorno : Len(retorno[i].padroes) > 0

====
